---- MODULE Spec2Model ----
(***************************************************************************)
(* Model of src/main.py: the Product hierarchy, Cart, User and the two     *)
(* Discount strategies, as a state machine over a heap of Product objects  *)
(* and a heap of Cart objects.                                             *)
(*                                                                         *)
(* Numbers.  Python computes totals in native int/float arithmetic.  The   *)
(* model computes them as exact, normalised rationals [num, den]: every    *)
(* division and multiplication of the code is carried out, only the        *)
(* rounding of IEEE doubles is abstracted.                                 *)
(***************************************************************************)
EXTENDS Integers, Sequences, FiniteSets, TLC

VARIABLES
    product,     \* heap of Product objects: reference -> attributes
    cart_items,  \* heap of Cart objects: reference -> Cart._cart_items
    user,        \* the constructed User objects: user_id -> attributes
    held,        \* a Cart reference kept by the caller (NoCart: none kept)
    last,        \* the call made last, with its arguments
    ret          \* what that call returned

vars == <<product, cart_items, user, held, last, ret>>

----------------------------------------------------------------------------
(* Bounds of the model. *)

\* Longest cart the session builds.
MaxCartLen == 3
\* Longest discount list handed to calculate_total.
MaxDiscounts == 2
\* Largest total handed to a discount strategy alone, in steps of 5.
MaxAmount == 20

----------------------------------------------------------------------------
(* Exact rational arithmetic. *)

Abs(n) == IF n < 0 THEN -n ELSE n

RECURSIVE GCD(_, _)
GCD(a, b) == IF b = 0 THEN a ELSE GCD(b, a % b)

\* The rational n/d in lowest terms with a positive denominator.
Rat(n, d) ==
    LET g == GCD(Abs(n), Abs(d))
        s == IF d < 0 THEN -1 ELSE 1
    IN  [num |-> s * (n \div g), den |-> s * (d \div g)]

ToRat(n) == [num |-> n, den |-> 1]
RatSub(a, b) == Rat(a.num * b.den - b.num * a.den, a.den * b.den)
RatMul(a, b) == Rat(a.num * b.num, a.den * b.den)
RatDiv(a, b) == Rat(a.num * b.den, a.den * b.num)
RatLess(a, b) == a.num * b.den < b.num * a.den

----------------------------------------------------------------------------
(* Python values. *)

PyNone == [tag |-> "None"]
PyList(s) == [tag |-> "list", items |-> s]

\* Truth value of None or a list, as tested by `if discounts:`.
IsTruthy(v) == v.tag = "list" /\ v.items # <<>>

\* No Cart object (None in place of a Cart reference).
NoCart == 0
\* No Product object (the None default of next()).
NoItem == "None"

----------------------------------------------------------------------------
(* class Product, DigitalProduct, PhysicalProduct. *)

\* Product.__init__
Product(product_id, name, price, quantity) ==
    [cls |-> "Product", product_id |-> product_id, name |-> name,
     price |-> price, quantity |-> quantity]

\* DigitalProduct.__init__
DigitalProduct(product_id, name, price, quantity, file_size, product_link) ==
    [cls |-> "DigitalProduct", product_id |-> product_id, name |-> name,
     price |-> price, quantity |-> quantity,
     file_size |-> file_size, product_link |-> product_link]

\* PhysicalProduct.__init__
PhysicalProduct(product_id, name, price, quantity, weight, dimensions, shipping_cost) ==
    [cls |-> "PhysicalProduct", product_id |-> product_id, name |-> name,
     price |-> price, quantity |-> quantity,
     weight |-> weight, dimensions |-> dimensions, shipping_cost |-> shipping_cost]

\* isinstance(item, PhysicalProduct)
IsPhysicalProduct(obj) == obj.cls = "PhysicalProduct"

\* The Product objects of a session: the references the caller holds.
ProductRefs == {"p1", "p2", "p3"}

\* The objects as the caller constructs them: a generic product with the
\* default quantity, a physical product with the same product_id, and a
\* digital product.
InitialProducts ==
    [p \in ProductRefs |->
        CASE p = "p1" -> Product(1, "Book", 10, 1)
          [] p = "p2" -> PhysicalProduct(1, "Laptop", 20, 2, 3, <<15, 10, 2>>, 5)
          [] p = "p3" -> DigitalProduct(2, "E-Book", 15, 1, 5, "www.example.com/download")]

\* The ids handed to remove_product; 3 is the id of no product.
ProductIds == {1, 2, 3}
\* The values handed to update_price and update_quantity.
NewPrices == {25}
NewQuantities == {0}

----------------------------------------------------------------------------
(* class Discount and its two strategies. *)

\* PercentageDiscount.__init__
PercentageDiscount(percentage) ==
    [type |-> "PercentageDiscount", percentage |-> percentage]

\* FixedAmountDiscount.__init__
FixedAmountDiscount(fixed_amount) ==
    [type |-> "FixedAmountDiscount", fixed_amount |-> fixed_amount]

\* A percentage strategy that clamps the percentage into 0..100.
PercentageDiscount_apply_discount_Clamped(self, total_price, items) ==
    LET pc == IF self.percentage > 100 THEN 100
              ELSE IF self.percentage < 0 THEN 0 ELSE self.percentage
    IN  RatMul(total_price, RatSub(ToRat(1), RatDiv(ToRat(pc), ToRat(100))))

\* PercentageDiscount.apply_discount:
\*   return total_price * (1 - self.percentage / 100)
PercentageDiscount_apply_discount(self, total_price, items) ==
    RatMul(total_price,
           RatSub(ToRat(1), RatDiv(ToRat(self.percentage), ToRat(100))))

\* max(0, x) of Python: x when x > 0, else 0.
Max0(x) == IF RatLess(ToRat(0), x) THEN x ELSE ToRat(0)

\* A fixed-amount strategy without the floor at zero.
FixedAmountDiscount_apply_discount_NoFloor(self, total_price, items) ==
    RatSub(total_price, ToRat(self.fixed_amount))

\* FixedAmountDiscount.apply_discount:
\*   return max(0, total_price - self.fixed_amount)
FixedAmountDiscount_apply_discount(self, total_price, items) ==
    Max0(RatSub(total_price, ToRat(self.fixed_amount)))

\* discount.apply_discount(total_price, cart_items), dispatched on the class.
apply_discount(discount, total_price, items) ==
    IF discount.type = "PercentageDiscount"
    THEN PercentageDiscount_apply_discount(discount, total_price, items)
    ELSE FixedAmountDiscount_apply_discount(discount, total_price, items)

----------------------------------------------------------------------------
(* class Cart: the methods as functions of the item list and the heap. *)

\* An add_product that skips an object the cart already holds.
add_product_Dedup(items, p) ==
    IF \E i \in 1..Len(items) : items[i] = p THEN items ELSE Append(items, p)

\* Cart.add_product: self._cart_items.append(product)
add_product(items, p) == Append(items, p)

\* A _find_item_by_id that returns the last match.
find_item_by_id_Last(items, product_id, heap) ==
    LET hits == {i \in 1..Len(items) : heap[items[i]].product_id = product_id}
    IN  IF hits = {} THEN NoItem
        ELSE items[CHOOSE i \in hits : \A j \in hits : i >= j]

\* Cart._find_item_by_id: the first item whose product_id matches, else None.
find_item_by_id(items, product_id, heap) ==
    LET hits == {i \in 1..Len(items) : heap[items[i]].product_id = product_id}
    IN  IF hits = {} THEN NoItem
        ELSE items[CHOOSE i \in hits : \A j \in hits : i <= j]

\* list.remove(x): drops the first element equal to x and raises ValueError
\* when there is none.  Products define no __eq__, so equal means the same
\* object.  The result is the list afterwards and the exception raised.
ListRemove(items, x) ==
    LET at == {k \in 1..Len(items) : items[k] = x}
        i == CHOOSE k \in at : \A j \in at : k <= j
    IN  IF at = {}
        THEN [items |-> items, raised |-> "ValueError"]
        ELSE [items |-> SubSeq(items, 1, i - 1) \o SubSeq(items, i + 1, Len(items)),
              raised |-> "None"]

\* A remove_product without the `if item:` test.
remove_product_Unguarded(items, product_id, heap) ==
    ListRemove(items, find_item_by_id(items, product_id, heap))

\* Cart.remove_product.  `if item:` is true of every Product object and
\* false of None.
remove_product(items, product_id, heap) ==
    LET item == find_item_by_id(items, product_id, heap)
    IN  IF item # NoItem
        THEN ListRemove(items, item)
        ELSE [items |-> items, raised |-> "None"]

\* format_item of Cart.view_cart
format_item(obj) ==
    [product_id |-> obj.product_id, name |-> obj.name,
     price |-> obj.price, quantity |-> obj.quantity]

\* A view_cart over copies of the products taken when they were constructed.
view_cart_Copies(items, heap) ==
    [i \in 1..Len(items) |-> format_item(InitialProducts[items[i]])]

\* Cart.view_cart
view_cart(items, heap) == [i \in 1..Len(items) |-> format_item(heap[items[i]])]

\* A term that charges shipping per unit.
ItemTotal_ShippingPerUnit(obj) ==
    obj.price * obj.quantity
        + (IF IsPhysicalProduct(obj) THEN obj.shipping_cost * obj.quantity ELSE 0)

\* One term of the sum of Cart.calculate_total.
ItemTotal(obj) ==
    obj.price * obj.quantity
        + (IF IsPhysicalProduct(obj) THEN obj.shipping_cost ELSE 0)

\* sum(...) of Cart.calculate_total over the first k items, from 0, left to right.
RECURSIVE SumItems(_, _, _)
SumItems(items, k, heap) ==
    IF k = 0 THEN 0
    ELSE SumItems(items, k - 1, heap) + ItemTotal(heap[items[k]])

\* The for loop of Cart._apply_discounts over discounts[k..].
RECURSIVE ApplyEach(_, _, _, _)
ApplyEach(total, discounts, k, items) ==
    IF k > Len(discounts) THEN total
    ELSE ApplyEach(apply_discount(discounts[k], total, items), discounts, k + 1, items)

\* An _apply_discounts that walks the list from its end.
apply_discounts_Reversed(base_total, discounts, items) ==
    IF IsTruthy(discounts)
    THEN ApplyEach(base_total,
                   [i \in 1..Len(discounts.items) |->
                        discounts.items[Len(discounts.items) + 1 - i]],
                   1, items)
    ELSE base_total

\* Cart._apply_discounts
apply_discounts(base_total, discounts, items) ==
    IF IsTruthy(discounts)
    THEN ApplyEach(base_total, discounts.items, 1, items)
    ELSE base_total

\* Cart.calculate_total
calculate_total(items, discounts, heap) ==
    LET base_total == ToRat(SumItems(items, Len(items), heap))
    IN  apply_discounts(base_total, discounts, items)

\* A strategy that marks the price of the items it is handed down to 0.
apply_discount_effect_Markdown(discount, total_price, items, heap) ==
    [items |-> items,
     heap  |-> [p \in DOMAIN heap |->
                  IF \E i \in 1..Len(items) : items[i] = p
                  THEN [heap[p] EXCEPT !.price = 0] ELSE heap[p]]]

\* What discount.apply_discount(total_price, cart_items) leaves of the list it
\* is handed (self._cart_items itself, no copy) and of the products in it:
\* both strategies compute from total_price alone and assign nothing.
apply_discount_effect(discount, total_price, items, heap) ==
    [items |-> items, heap |-> heap]

\* The list and the products after the for loop of Cart._apply_discounts.
RECURSIVE EffectOfEach(_, _, _, _, _)
EffectOfEach(total, discounts, k, items, heap) ==
    IF k > Len(discounts) THEN [items |-> items, heap |-> heap]
    ELSE LET e == apply_discount_effect(discounts[k], total, items, heap)
         IN  EffectOfEach(apply_discount(discounts[k], total, items),
                          discounts, k + 1, e.items, e.heap)

\* The list and the products after Cart.calculate_total: the sum only reads
\* them, the discounts are handed them.
calculate_total_effect(items, discounts, heap) ==
    IF IsTruthy(discounts)
    THEN EffectOfEach(ToRat(SumItems(items, Len(items), heap)),
                      discounts.items, 1, items, heap)
    ELSE [items |-> items, heap |-> heap]

----------------------------------------------------------------------------
(* The heap of Cart objects. *)

\* Cart(): a reference no live Cart object has.
NewCartRef(heap) ==
    CHOOSE c \in 1..(Cardinality(DOMAIN heap) + 1) : c \notin DOMAIN heap

\* Cart.__init__: the heap with a new, empty Cart at reference c.
Cart(heap, c) ==
    [x \in DOMAIN heap \cup {c} |-> IF x = c THEN <<>> ELSE heap[x]]

\* The Cart objects still referenced by a User or by the caller; the others
\* are garbage and leave the heap.
Live(users, h) == {users[u].cart : u \in DOMAIN users} \cup ({h} \ {NoCart})
Collect(heap, users, h) == [c \in DOMAIN heap \cap Live(users, h) |-> heap[c]]

----------------------------------------------------------------------------
(* class User. *)

\* The discount strategies the caller constructs.
DiscountPool ==
    {PercentageDiscount(20), FixedAmountDiscount(30), PercentageDiscount(150)}

\* The lists of at most MaxDiscounts strategies.
DiscountLists == UNION {[1..n -> DiscountPool] : n \in 0..MaxDiscounts}

\* What a caller passes as `discounts` to calculate_total.
DiscountArgs == {PyNone} \cup {PyList(l) : l \in DiscountLists}

\* What a User is constructed with as default discounts.
UserDiscounts ==
    {PyNone, PyList(<<PercentageDiscount(20), FixedAmountDiscount(30)>>)}

\* An `if not self.cart` that takes an empty Cart for false, as a Cart with
\* __len__ would be.
CartIsFalsy_EmptyCart(cart, heap) == cart = NoCart \/ heap[cart] = <<>>

\* `if not self.cart` of User.__init__: a Cart defines neither __bool__ nor
\* __len__, so every Cart object is true and only None is false.
CartIsFalsy(cart, heap) == cart = NoCart

\* User.__init__: the new object and the heap after it.
User(user_id, name, cart, discounts, heap) ==
    LET c == IF CartIsFalsy(cart, heap) THEN NewCartRef(heap) ELSE cart
    IN  [obj  |-> [user_id |-> user_id, name |-> name, cart |-> c,
                   discounts |-> discounts],
         heap |-> IF CartIsFalsy(cart, heap) THEN Cart(heap, c) ELSE heap]

\* User.add_to_cart
add_to_cart(u, p) ==
    /\ Len(cart_items[user[u].cart]) < MaxCartLen
    /\ cart_items' = [cart_items EXCEPT
                        ![user[u].cart] = add_product(@, p)]
    /\ last' = [op |-> "add_to_cart", user |-> u, product |-> p]
    /\ ret' = PyNone
    /\ UNCHANGED <<product, user, held>>

\* User.remove_from_cart
remove_from_cart(u, product_id) ==
    LET r == remove_product(cart_items[user[u].cart], product_id, product)
    IN  /\ cart_items' = [cart_items EXCEPT ![user[u].cart] = r.items]
        /\ last' = [op |-> "remove_from_cart", user |-> u,
                    product_id |-> product_id,
                    item |-> find_item_by_id(cart_items[user[u].cart],
                                             product_id, product)]
        /\ ret' = IF r.raised = "None" THEN PyNone ELSE [tag |-> r.raised]
        /\ UNCHANGED <<product, user, held>>

\* A checkout that leaves the user's default discounts out.
checkout_WithoutDiscounts(u) ==
    LET temp == calculate_total(cart_items[user[u].cart], PyNone, product)
        e == calculate_total_effect(cart_items[user[u].cart], PyNone, product)
        c == NewCartRef(cart_items)
        users == [user EXCEPT ![u].cart = c]
    IN  /\ user' = users
        /\ cart_items' = Collect(Cart([cart_items EXCEPT ![user[u].cart] = e.items], c),
                                 users, held)
        /\ product' = e.heap
        /\ last' = [op |-> "checkout", user |-> u, cart |-> user[u].cart]
        /\ ret' = temp
        /\ UNCHANGED held

\* A checkout that empties the cart object in place.
checkout_ClearInPlace(u) ==
    LET temp == calculate_total(cart_items[user[u].cart], user[u].discounts, product)
        e == calculate_total_effect(cart_items[user[u].cart], user[u].discounts, product)
    IN  /\ cart_items' = [cart_items EXCEPT ![user[u].cart] = <<>>]
        /\ product' = e.heap
        /\ last' = [op |-> "checkout", user |-> u, cart |-> user[u].cart]
        /\ ret' = temp
        /\ UNCHANGED <<user, held>>

\* User.checkout.  `cart` of last is the Cart object the total was computed
\* on: self.cart as the call found it.
checkout(u) ==
    LET temp == calculate_total(cart_items[user[u].cart], user[u].discounts, product)
        e == calculate_total_effect(cart_items[user[u].cart], user[u].discounts, product)
        c == NewCartRef(cart_items)
        users == [user EXCEPT ![u].cart = c]
    IN  /\ user' = users
        /\ cart_items' = Collect(Cart([cart_items EXCEPT ![user[u].cart] = e.items], c),
                                 users, held)
        /\ product' = e.heap
        /\ last' = [op |-> "checkout", user |-> u, cart |-> user[u].cart]
        /\ ret' = temp
        /\ UNCHANGED held

\* user.cart.view_cart()
CallViewCart(u) ==
    /\ last' = [op |-> "view_cart", user |-> u]
    /\ ret' = view_cart(cart_items[user[u].cart], product)
    /\ UNCHANGED <<product, cart_items, user, held>>

\* user.cart.calculate_total(discounts)
CallCalculateTotal(u, discounts) ==
    LET e == calculate_total_effect(cart_items[user[u].cart], discounts, product)
    IN  /\ last' = [op |-> "calculate_total", user |-> u, discounts |-> discounts]
        /\ ret' = calculate_total(cart_items[user[u].cart], discounts, product)
        /\ cart_items' = [cart_items EXCEPT ![user[u].cart] = e.items]
        /\ product' = e.heap
        /\ UNCHANGED <<user, held>>

\* The caller keeps a reference to the user's present cart: ref = user.cart
HoldCart(u) ==
    /\ held # user[u].cart
    /\ held' = user[u].cart
    /\ cart_items' = Collect(cart_items, user, user[u].cart)
    /\ last' = [op |-> "hold", user |-> u]
    /\ ret' = PyNone
    /\ UNCHANGED <<product, user>>

\* discount.apply_discount(total_price, []) called on a strategy alone.
CallApplyDiscount(discount, total_price) ==
    /\ last' = [op |-> "apply_discount", discount |-> discount,
                total_price |-> total_price]
    /\ ret' = apply_discount(discount, total_price, <<>>)
    /\ UNCHANGED <<product, cart_items, user, held>>

\* Product.update_quantity
update_quantity(p, new_quantity) ==
    /\ product' = [product EXCEPT ![p].quantity = new_quantity]
    /\ last' = [op |-> "update_quantity", product |-> p, value |-> new_quantity]
    /\ ret' = PyNone
    /\ UNCHANGED <<cart_items, user, held>>

\* Product.update_price
update_price(p, new_price) ==
    /\ product' = [product EXCEPT ![p].price = new_price]
    /\ last' = [op |-> "update_price", product |-> p, value |-> new_price]
    /\ ret' = PyNone
    /\ UNCHANGED <<cart_items, user, held>>

----------------------------------------------------------------------------
(* The session of one user. *)

Init ==
    \E d \in UserDiscounts :
        LET u == User(1, "John Doe", NoCart, d, <<>>)
        IN  /\ product = InitialProducts
            /\ cart_items = u.heap
            /\ user = (1 :> u.obj)
            /\ held = NoCart
            /\ last = [op |-> "init"]
            /\ ret = PyNone

\* The calls on the user and the cart, the products left as constructed.
Next ==
    \/ \E u \in DOMAIN user, p \in ProductRefs : add_to_cart(u, p)
    \/ \E u \in DOMAIN user, i \in ProductIds : remove_from_cart(u, i)
    \/ \E u \in DOMAIN user : checkout(u)
    \/ \E u \in DOMAIN user : CallViewCart(u)
    \/ \E u \in DOMAIN user : CallCalculateTotal(u, PyNone)

Spec == Init /\ [][Next]_vars

\* The same session with a caller that keeps references to the user's cart.
NextHeld ==
    \/ \E u \in DOMAIN user, p \in ProductRefs : add_to_cart(u, p)
    \/ \E u \in DOMAIN user, i \in ProductIds : remove_from_cart(u, i)
    \/ \E u \in DOMAIN user : checkout(u)
    \/ \E u \in DOMAIN user : HoldCart(u)

SpecHeld == Init /\ [][NextHeld]_vars

\* The products change while they are in the cart.
NextProduct ==
    \/ \E u \in DOMAIN user, p \in ProductRefs : add_to_cart(u, p)
    \/ \E p \in ProductRefs, q \in NewQuantities : update_quantity(p, q)
    \/ \E p \in ProductRefs, v \in NewPrices : update_price(p, v)
    \/ \E u \in DOMAIN user : CallViewCart(u)
    \/ \E u \in DOMAIN user : CallCalculateTotal(u, PyNone)
    \/ \E u \in DOMAIN user : checkout(u)

SpecProduct == Init /\ [][NextProduct]_vars

\* The cart is filled and its total asked for with every discount list.
NextTotal ==
    \/ \E u \in DOMAIN user, p \in ProductRefs : add_to_cart(u, p)
    \/ \E u \in DOMAIN user, d \in DiscountArgs : CallCalculateTotal(u, d)

SpecTotal == Init /\ [][NextTotal]_vars

\* The percentages and the amounts the strategies are constructed with, and
\* the totals they are applied to: negative, zero and positive, whole and not.
Percentages == {-50, 0, 10, 20, 100, 150}
FixedAmounts == {-5, 0, 15, 30, 50, 200}
TotalInputs == {ToRat(5 * n) : n \in (-MaxAmount)..MaxAmount}
DiscountInputs ==
    {PercentageDiscount(x) : x \in Percentages}
        \cup {FixedAmountDiscount(x) : x \in FixedAmounts}

\* The discount strategies applied on their own.
NextDiscount ==
    \E d \in DiscountInputs, t \in TotalInputs : CallApplyDiscount(d, t)

SpecDiscount == Init /\ [][NextDiscount]_vars

\* Two users constructed with one Cart object the caller made.
InitShared ==
    \E d1 \in UserDiscounts, d2 \in UserDiscounts :
        LET c == NewCartRef(<<>>)
            a == User(1, "Alice", c, d1, Cart(<<>>, c))
            b == User(2, "Bob", c, d2, a.heap)
        IN  /\ product = InitialProducts
            /\ cart_items = b.heap
            /\ user = (1 :> a.obj) @@ (2 :> b.obj)
            /\ held = NoCart
            /\ last = [op |-> "init"]
            /\ ret = PyNone

NextShared ==
    \/ \E u \in DOMAIN user, p \in ProductRefs : add_to_cart(u, p)
    \/ \E u \in DOMAIN user : checkout(u)

SpecShared == InitShared /\ [][NextShared]_vars

----------------------------------------------------------------------------
(* What the specification expects, stated without the operators above. *)

\* The cart of user u.
CartOf(u) == cart_items[user[u].cart]

RatEq(a, b) == a.num * b.den = b.num * a.den

\* Sum of price * quantity over the line items.
RECURSIVE LineSum(_, _)
LineSum(items, heap) ==
    IF items = <<>> THEN 0
    ELSE heap[Head(items)].price * heap[Head(items)].quantity
            + LineSum(Tail(items), heap)

\* Sum of shipping_cost over the physical line items, once per line item.
RECURSIVE ShippingSum(_, _)
ShippingSum(items, heap) ==
    IF items = <<>> THEN 0
    ELSE (IF heap[Head(items)].cls = "PhysicalProduct"
          THEN heap[Head(items)].shipping_cost ELSE 0)
            + ShippingSum(Tail(items), heap)

ExpectedBase(items, heap) == ToRat(LineSum(items, heap) + ShippingSum(items, heap))

\* C1: calculate_total() with no discounts returns the sum of price * quantity
\* over the line items plus the shipping_cost of each physical line item, once
\* per line item whatever its quantity.
C1_TotalWithoutDiscounts ==
    (last.op = "calculate_total" /\ last.discounts.tag = "None")
        => ret = ExpectedBase(CartOf(last.user), product)

\* A total was asked for with a physical item of quantity 0 and one of another
\* class in the cart.
C1_Witness ==
    /\ last.op = "calculate_total"
    /\ last.discounts.tag = "None"
    /\ \E i, j \in 1..Len(CartOf(last.user)) :
          /\ product[CartOf(last.user)[i]].cls = "PhysicalProduct"
          /\ product[CartOf(last.user)[i]].quantity = 0
          /\ product[CartOf(last.user)[j]].cls # "PhysicalProduct"
          /\ product[CartOf(last.user)[j]].quantity > 0
    /\ ret.num > 0

\* The left fold: the n-th discount applied to what the first n - 1 left.
RECURSIVE FoldLeft(_, _, _, _)
FoldLeft(discounts, n, base, items) ==
    IF n = 0 THEN base
    ELSE apply_discount(discounts[n], FoldLeft(discounts, n - 1, base, items), items)

TwentyThenThirty == <<PercentageDiscount(20), FixedAmountDiscount(30)>>
ThirtyThenTwenty == <<FixedAmountDiscount(30), PercentageDiscount(20)>>

\* C2: calculate_total(discounts) folds a non-empty discount list from the
\* left, in list order, over the base total; None and the empty list give the
\* base total; on 100, [20%, $30] gives 50 and the reverse order gives 56.
C2_DiscountFold ==
    last.op = "calculate_total" =>
        LET items == CartOf(last.user)
            base == ExpectedBase(items, product)
        IN  IF last.discounts.tag = "None" THEN ret = base
            ELSE LET d == last.discounts.items
                 IN  /\ d = <<>> => ret = base
                     /\ ret = FoldLeft(d, Len(d), base, items)
                     /\ (base = ToRat(100) /\ d = TwentyThenThirty) => ret = ToRat(50)
                     /\ (base = ToRat(100) /\ d = ThirtyThenTwenty) => ret = ToRat(56)

\* The total of a cart worth 100 was asked for with [20% off, $30 off].
C2_Witness ==
    /\ last.op = "calculate_total"
    /\ last.discounts = PyList(TwentyThenThirty)
    /\ ExpectedBase(CartOf(last.user), product) = ToRat(100)
    /\ ret = ToRat(50)

\* C3: checkout() returns what calculate_total(user.discounts) returns on the
\* cart as it stood before the call, and leaves view_cart() empty.
C3_CheckoutTotal ==
    [][last'.op = "checkout" =>
        /\ ret' = calculate_total(CartOf(last'.user), user[last'.user].discounts, product)
        /\ view_cart(cart_items'[user'[last'.user].cart], product') = <<>>]_vars

\* A user with default discounts checked out a cart that was not empty.
C3_Witness ==
    /\ last.op = "checkout"
    /\ user[last.user].discounts.tag = "list"
    /\ ret.num > 0
    /\ CartOf(last.user) = <<>>

\* C4: checkout replaces the cart: the cart object held from before keeps its
\* items, the user's cart is another, empty one, and no later add_to_cart or
\* remove_from_cart of the user changes the old cart object.
C4_CheckoutReplacesCart ==
    [][\A u \in DOMAIN user :
        /\ (last'.op = "checkout" /\ last'.user = u /\ held = user[u].cart) =>
              /\ held' = held
              /\ held \in DOMAIN cart_items'
              /\ cart_items'[held] = cart_items[held]
              /\ user'[u].cart # held
              /\ cart_items'[user'[u].cart] = <<>>
        /\ (/\ last'.op \in {"add_to_cart", "remove_from_cart"}
            /\ last'.user = u
            /\ held # NoCart
            /\ held # user[u].cart) =>
              /\ held \in DOMAIN cart_items'
              /\ cart_items'[held] = cart_items[held]]_vars

\* The user added to the new cart while the caller held the old, filled one.
C4_Witness ==
    /\ last.op = "add_to_cart"
    /\ held # NoCart
    /\ held # user[last.user].cart
    /\ Len(cart_items[held]) = MaxCartLen
    /\ Len(CartOf(last.user)) >= 2

\* The base four fields of a line item.
FourFields(obj) ==
    [product_id |-> obj.product_id, name |-> obj.name,
     price |-> obj.price, quantity |-> obj.quantity]

\* C5: every add_product adds one entry at the end of view_cart(), the entries
\* before it unchanged, duplicates included; each entry of view_cart() has
\* exactly the keys product_id, name, price, quantity of its product.
C5_ViewCartInsertionOrder ==
    [][/\ last'.op = "add_to_cart" =>
            view_cart(cart_items'[user'[last'.user].cart], product')
                = Append(view_cart(CartOf(last'.user), product),
                         FourFields(product[last'.product]))
       /\ last'.op = "view_cart" =>
            /\ Len(ret') = Len(CartOf(last'.user))
            /\ \A i \in 1..Len(ret') :
                  /\ DOMAIN ret'[i] = {"product_id", "name", "price", "quantity"}
                  /\ ret'[i] = FourFields(product[CartOf(last'.user)[i]])]_vars

\* view_cart() was called on a cart holding one object twice and another
\* object of another class with the same product_id.
C5_Witness ==
    /\ last.op = "view_cart"
    /\ Len(ret) = 3
    /\ CartOf(last.user)[1] = CartOf(last.user)[2]
    /\ CartOf(last.user)[3] # CartOf(last.user)[1]
    /\ ret[3].product_id = ret[1].product_id
    /\ product[CartOf(last.user)[3]].cls # product[CartOf(last.user)[1]].cls

\* The positions of the items with a given product_id.
Matches(items, product_id, heap) ==
    {i \in 1..Len(items) : heap[items[i]].product_id = product_id}

\* items without its k-th element.
Without(items, k) ==
    [j \in 1..(Len(items) - 1) |-> IF j < k THEN items[j] ELSE items[j + 1]]

\* C6: remove_product(product_id) with a matching item in the cart removes the
\* first item with that id and nothing else: the length drops by one, the later
\* items with the id stay and the order of the rest is kept.
C6_RemoveFirstMatch ==
    [][last'.op = "remove_from_cart" =>
        LET items == CartOf(last'.user)
            after == cart_items'[user'[last'.user].cart]
            m == Matches(items, last'.product_id, product)
        IN  m # {} =>
              /\ Len(after) = Len(items) - 1
              /\ after = Without(items, CHOOSE k \in m : \A j \in m : k <= j)
              /\ Cardinality(Matches(after, last'.product_id, product'))
                    = Cardinality(m) - 1]_vars

\* An item was removed from a cart of three and a later item with the same
\* product_id is still there.
C6_Witness ==
    /\ last.op = "remove_from_cart"
    /\ last.item # NoItem
    /\ Len(CartOf(last.user)) = 2
    /\ Matches(CartOf(last.user), last.product_id, product) # {}
    /\ CartOf(last.user)[1] # CartOf(last.user)[2]

\* C7: remove_product / remove_from_cart with an id no item has raises nothing
\* and leaves every cart as it was.
C7_RemoveAbsentIsNoOp ==
    [][last'.op = "remove_from_cart" =>
        (Matches(CartOf(last'.user), last'.product_id, product) = {} =>
            /\ ret' = PyNone
            /\ cart_items' = cart_items
            /\ user' = user)]_vars

\* remove_from_cart found nothing to remove in a cart that holds items.
C7_Witness ==
    /\ last.op = "remove_from_cart"
    /\ last.item = NoItem
    /\ ret = PyNone
    /\ Len(CartOf(last.user)) >= 2

\* C8: FixedAmountDiscount.apply_discount returns max(0, total - fixed_amount):
\* total - fixed_amount when that is positive, else 0, never a negative total.
C8_FixedAmountFloor ==
    (last.op = "apply_discount" /\ last.discount.type = "FixedAmountDiscount") =>
        LET t == last.total_price
            diff == [num |-> t.num - last.discount.fixed_amount * t.den,
                     den |-> t.den]
        IN  /\ ret.num >= 0 /\ ret.den > 0
            /\ diff.num > 0 => RatEq(ret, diff)
            /\ diff.num <= 0 => ret = ToRat(0)

\* A fixed amount was taken from a negative total and the result is 0.
C8_Witness ==
    /\ last.op = "apply_discount"
    /\ last.discount.type = "FixedAmountDiscount"
    /\ last.discount.fixed_amount > 0
    /\ last.total_price.num < 0
    /\ ret = ToRat(0)

\* PercentageDiscount.apply_discount returns total * (1 - percentage / 100),
\* and 90 for 10 percent of 100.
PercentageFormula ==
    /\ RatEq([num |-> ret.num * 100, den |-> ret.den],
             [num |-> last.total_price.num * (100 - last.discount.percentage),
              den |-> last.total_price.den])
    /\ (last.discount.percentage = 10 /\ last.total_price = ToRat(100))
          => ret = ToRat(90)

\* C9 as stated: the formula, and for every input total a percentage above 100
\* yields a negative total and a percentage below 0 a total greater than the
\* input.
C9_Original ==
    (last.op = "apply_discount" /\ last.discount.type = "PercentageDiscount") =>
        /\ PercentageFormula
        /\ last.discount.percentage > 100 => ret.num < 0
        /\ last.discount.percentage < 0 => RatLess(last.total_price, ret)

\* C9 as amended: the formula with no clamping; for a positive total a
\* percentage above 100 yields a negative total and one below 0 a greater
\* total; for a total of 0 the result is 0; for a negative total a percentage
\* above 100 yields a positive total and one below 0 a smaller total.
C9_PercentageNoClamp ==
    (last.op = "apply_discount" /\ last.discount.type = "PercentageDiscount") =>
        LET t == last.total_price
            p == last.discount.percentage
        IN  /\ PercentageFormula
            /\ (t.num > 0 /\ p > 100) => ret.num < 0
            /\ (t.num > 0 /\ p < 0) => RatLess(t, ret)
            /\ t.num = 0 => ret = ToRat(0)
            /\ (t.num < 0 /\ p > 100) => ret.num > 0
            /\ (t.num < 0 /\ p < 0) => RatLess(ret, t)

\* A percentage above 100 was applied to a positive total.
C9_Witness ==
    /\ last.op = "apply_discount"
    /\ last.discount.type = "PercentageDiscount"
    /\ last.discount.percentage > 100
    /\ last.total_price.num > 0
    /\ ret.num < 0

\* The positions of object p in a list of items.
LinesOf(items, p) == {i \in 1..Len(items) : items[i] = p}

\* C10: the cart holds the products by reference: after update_price or
\* update_quantity on a product in the cart, view_cart() shows the new value on
\* every line of that product and calculate_total() and checkout() use it.
C10_UpdateVisibleThroughCart ==
    [][\A u \in DOMAIN user :
        LET items == CartOf(u)
            now == view_cart(cart_items'[user[u].cart], product')
        IN  /\ last'.op = "update_price" =>
                /\ \A i \in LinesOf(items, last'.product) : now[i].price = last'.value
                /\ calculate_total(cart_items'[user[u].cart], PyNone, product')
                      = ExpectedBase(items, product')
                /\ product'[last'.product].price = last'.value
            /\ last'.op = "update_quantity" =>
                /\ \A i \in LinesOf(items, last'.product) : now[i].quantity = last'.value
                /\ calculate_total(cart_items'[user[u].cart], PyNone, product')
                      = ExpectedBase(items, product')
                /\ product'[last'.product].quantity = last'.value
            /\ (last'.op = "view_cart" /\ last'.user = u) =>
                \A i \in 1..Len(items) :
                    /\ ret'[i].price = product[items[i]].price
                    /\ ret'[i].quantity = product[items[i]].quantity
            /\ (last'.op = "checkout" /\ last'.user = u) =>
                ret' = FoldLeft(IF user[u].discounts.tag = "None" THEN <<>>
                                ELSE user[u].discounts.items,
                                IF user[u].discounts.tag = "None" THEN 0
                                ELSE Len(user[u].discounts.items),
                                ExpectedBase(items, product), items)]_vars

\* update_price changed a product that is on two lines of the user's cart.
C10_Witness ==
    /\ last.op = "update_price"
    /\ product[last.product].price # InitialProducts[last.product].price
    /\ \E u \in DOMAIN user : Cardinality(LinesOf(CartOf(u), last.product)) >= 2

\* C11: calculate_total with any discount list changes no state: the carts'
\* item sequences and every product's price, quantity and shipping_cost are
\* after the call what they were before it, so view_cart() is unchanged and a
\* second call with the same discounts returns the same total.
C11_CalculateTotalChangesNothing ==
    [][last'.op = "calculate_total" =>
        LET u == last'.user
        IN  /\ cart_items' = cart_items
            /\ user' = user
            /\ \A p \in ProductRefs :
                  /\ product'[p].price = product[p].price
                  /\ product'[p].quantity = product[p].quantity
                  /\ product[p].cls = "PhysicalProduct" =>
                        product'[p].shipping_cost = product[p].shipping_cost
            /\ view_cart(cart_items'[user'[u].cart], product')
                  = view_cart(CartOf(u), product)
            /\ calculate_total(cart_items'[user'[u].cart], last'.discounts, product')
                  = ret'
            /\ (/\ last.op = "calculate_total"
                /\ last.user = u
                /\ last.discounts.tag = last'.discounts.tag
                /\ last.discounts = last'.discounts) => ret' = ret]_vars

\* The total of a full cart with a physical item was asked for with a
\* percentage and a fixed-amount discount.
C11_Witness ==
    /\ last.op = "calculate_total"
    /\ last.discounts = PyList(ThirtyThenTwenty)
    /\ Len(CartOf(last.user)) = MaxCartLen
    /\ \E i \in 1..Len(CartOf(last.user)) :
          product[CartOf(last.user)[i]].cls = "PhysicalProduct"
    /\ ret.num > 0

\* C12: a User constructed with a Cart uses that object, empty or not; two
\* users constructed with one Cart see each other's additions; after the
\* checkout of one the cart of the other still holds all the items, and the
\* checkout of the other returns the total of the same items again.
C12_SharedCart ==
    [][/\ last.op = "init" =>
            /\ user[1].cart = user[2].cart
            /\ DOMAIN cart_items = {user[1].cart}
            /\ CartOf(1) = <<>>
       /\ \A u, v \in DOMAIN user :
            (u # v /\ user[u].cart = user[v].cart) =>
                /\ (last'.op = "add_to_cart" /\ last'.user = u) =>
                      /\ cart_items'[user'[v].cart] = Append(CartOf(v), last'.product)
                      /\ view_cart(cart_items'[user'[v].cart], product')
                            = view_cart(cart_items'[user'[u].cart], product')
                /\ (last'.op = "checkout" /\ last'.user = u) =>
                      /\ user'[v].cart = user[v].cart
                      /\ cart_items'[user'[v].cart] = CartOf(v)
                      /\ ret' = calculate_total(CartOf(v), user[u].discounts, product)
       /\ (/\ last.op = "checkout"
           /\ last'.op = "checkout"
           /\ last'.user # last.user
           /\ last'.cart = last.cart) =>
              /\ ret' = calculate_total(cart_items[last.cart],
                                        user[last'.user].discounts, product)
              /\ (/\ user[last.user].discounts.tag = user[last'.user].discounts.tag
                  /\ user[last.user].discounts = user[last'.user].discounts)
                    => ret' = ret]_vars

\* One user checked out the shared cart, filled by both, and the other user's
\* cart is still that object with all its items.
C12_Witness ==
    /\ last.op = "checkout"
    /\ ret.num > 0
    /\ \E v \in DOMAIN user :
          /\ v # last.user
          /\ user[v].cart = last.cart
          /\ Len(cart_items[last.cart]) = MaxCartLen

====
